---- MODULE Spec2Model ----
(***************************************************************************)
(* gifsplit: the driver loop of main() and the still-image encoder         *)
(* write_image() of src/gifsplit.c, as a state machine.                    *)
(*                                                                         *)
(* main() allocates one scratch array of row pointers, pulls frames from   *)
(* the Frame Source one at a time, hands each to write_image(), reports    *)
(* it, and reads the aggregate metadata once the source is exhausted.      *)
(* write_image() is modelled step by step (pc), so that the states in      *)
(* which the png structs are alive and the rows are handed to the writer   *)
(* can be observed.                                                        *)
(***************************************************************************)
EXTENDS Integers, Sequences, FiniteSets, TLC

(* ---------------------------- bounds ----------------------------------- *)
MaxFrames == 2
MaxHeight == 2
MaxWidth == 2
MaxColors == 2

(* ------------------------ program constants ---------------------------- *)
\* png_byte trans_alpha[256]
TransAlphaSize == 256

\* two distinguishable palette entries (GifColorType: Red, Green, Blue)
BasePalette == << [Red |-> 10, Green |-> 20, Blue |-> 30],
                  [Red |-> 255, Green |-> 0, Blue |-> 128] >>

\* values an uninitialised byte of the stack array may hold
JunkBytes == {0, 170}

(* ------------------------- frame records ------------------------------- *)
RECURSIVE Pow2(_)
Pow2(n) == IF n = 0 THEN 1 ELSE 2 * Pow2(n - 1)

\* img->ColorMap == NULL
NullColorMap == [BitsPerPixel |-> 0, ColorCount |-> 0, Colors |-> << >>]

\* the color tables of n entries: the base entries in turn, from either one
Palettes(n) ==
    { [i \in 1..n |-> BasePalette[((i + r) % Len(BasePalette)) + 1]] :
        r \in 0..(Len(BasePalette) - 1) }

\* a color table of n entries, n <= 2^BitsPerPixel, BitsPerPixel in 1..8
ColorMaps ==
    UNION { { [BitsPerPixel |-> b, ColorCount |-> n, Colors |-> c] : c \in Palettes(n) } :
            b \in 1..8, n \in 1..MaxColors }

ValidColorMaps == { cm \in ColorMaps : cm.ColorCount <= Pow2(cm.BitsPerPixel) }

\* the value of img before the first GifSplitterReadFrame and after the last
NoImage == [Width |-> 0, Height |-> 0, IsTruecolor |-> FALSE,
            ColorMap |-> NullColorMap, TransparentColorIndex |-> -1, id |-> -1]

\* the frame records GifSplitterReadFrame can return for a canvas of
\* height sh; id names the frame's RasterData buffer
FrameRecords(sh, id) ==
    { [Width |-> w, Height |-> h, IsTruecolor |-> TRUE,
       ColorMap |-> NullColorMap, TransparentColorIndex |-> -1, id |-> id] :
        w \in 1..MaxWidth, h \in 1..sh }
    \cup
    { [Width |-> w, Height |-> h, IsTruecolor |-> FALSE,
       ColorMap |-> NullColorMap, TransparentColorIndex |-> -1, id |-> id] :
        w \in 1..MaxWidth, h \in 1..sh }
    \cup
    UNION { { [Width |-> w, Height |-> h, IsTruecolor |-> FALSE,
               ColorMap |-> cm, TransparentColorIndex |-> t, id |-> id] :
                w \in 1..MaxWidth, h \in 1..sh, t \in (-1)..(cm.ColorCount - 1) } :
            cm \in ValidColorMaps }

\* snprintf(output_filename, fn_len, "%s%06d.png", output_base, frame):
\* the decimal digits of frame, zero-padded to six
RECURSIVE Digits(_)
Digits(n) == IF n < 10 THEN << n >> ELSE Append(Digits(n \div 10), n % 10)

RECURSIVE ZeroPad(_, _)
ZeroPad(ds, w) == IF Len(ds) >= w THEN ds ELSE ZeroPad(<< 0 >> \o ds, w)

OutputFilename(n) == ZeroPad(Digits(n), 6)

FileNames == { OutputFilename(k) : k \in 0..MaxFrames }

(* ------------------------------ state ---------------------------------- *)
VARIABLES
    pc,            \* position of the process in main / write_image
    SHeight,       \* gif->SHeight
    capacity,      \* number of entries malloc'ed for row_pointers
    row_pointers,  \* the scratch array: index -> <<buffer id, offset>>
    oob,           \* a row_pointers[i] store landed outside the array
    img,           \* the frame returned by GifSplitterReadFrame
    frame,         \* int frame
    pulled,        \* frames the Frame Source has yielded so far
    eos,           \* GifSplitterReadFrame has returned NULL
    src_errors,    \* the Frame Source's HasErrors
    info_read,     \* GifSplitterGetInfo has been called
    files,         \* output file of frame k: what is on disk
    fp_open,       \* FILE handles opened by write_image and not closed
    png,           \* png_ptr / info_ptr of the running write_image call
    stride,        \* size_t stride
    ret,           \* return value of the last write_image call
    reported,      \* frame indices printed by printf("%d delay=%d\n")
    exit_status,   \* return value of main, -1 while running
    signal         \* abrupt termination of the process

vars == << pc, SHeight, capacity, row_pointers, oob, img, frame, pulled, eos,
           src_errors, info_read, files, fp_open, png, stride, ret, reported,
           exit_status, signal >>

\* an entry of row_pointers never stored to
Uninit == << -1, -1 >>

\* no png structs
NoPng == [png_ptr |-> FALSE, info_ptr |-> FALSE, bit_depth |-> 0,
          color_type |-> "none", PLTE |-> << >>, has_tRNS |-> FALSE,
          trans_alpha |-> << >>, rows_set |-> FALSE]

NoFile == [status |-> "absent", src |-> -1]

Init ==
    /\ pc = "alloc"
    /\ SHeight \in 1..MaxHeight
    /\ capacity = 0
    /\ row_pointers = << >>
    /\ oob = FALSE
    /\ img = NoImage
    /\ frame = 0
    /\ pulled = 0
    /\ eos = FALSE
    /\ src_errors = FALSE
    /\ info_read = FALSE
    /\ files = [n \in FileNames |-> NoFile]
    /\ fp_open = 0
    /\ png = NoPng
    /\ stride = 0
    /\ ret = "none"
    /\ reported = << >>
    /\ exit_status = -1
    /\ signal = "none"

(* ------------------------------ main ----------------------------------- *)
\* mutant: one entry too few
RowPointersCapacity_OneShort(sheight) == sheight - 1

\* malloc(sizeof (*row_pointers) * gif->SHeight)
RowPointersCapacity(sheight) == sheight

AllocRows ==
    /\ pc = "alloc"
    /\ capacity' = RowPointersCapacity(SHeight)
    /\ row_pointers' = [i \in 0..(RowPointersCapacity(SHeight) - 1) |-> Uninit]
    /\ pc' = "read"
    /\ UNCHANGED << SHeight, oob, img, frame, pulled, eos, src_errors, info_read,
                    files, fp_open, png, stride, ret, reported, exit_status, signal >>

AllocRowsFail ==
    /\ pc = "alloc"
    /\ pc' = "done"
    /\ exit_status' = 1
    /\ UNCHANGED << SHeight, capacity, row_pointers, oob, img, frame, pulled, eos,
                    src_errors, info_read, files, fp_open, png, stride, ret,
                    reported, signal >>

\* GifSplitterReadFrame returns a frame
ReadFrame ==
    /\ pc = "read"
    /\ pulled < MaxFrames
    /\ \E f \in FrameRecords(SHeight, pulled) : img' = f
    /\ pulled' = pulled + 1
    /\ pc' = "wi_fopen"
    /\ UNCHANGED << SHeight, capacity, row_pointers, oob, frame, eos, src_errors,
                    info_read, files, fp_open, png, stride, ret, reported,
                    exit_status, signal >>

\* GifSplitterReadFrame returns NULL: the container is exhausted, or the
\* decoder met an anomaly and gave up
ReadEnd ==
    /\ pc = "read"
    /\ img' = NoImage
    /\ eos' = TRUE
    /\ \E e \in BOOLEAN : src_errors' = e
    /\ pc' = "getinfo"
    /\ UNCHANGED << SHeight, capacity, row_pointers, oob, frame, pulled, info_read,
                    files, fp_open, png, stride, ret, reported, exit_status, signal >>

(* --------------------------- write_image ------------------------------- *)
\* C's & on non-negative ints
RECURSIVE BitAnd(_, _)
BitAnd(a, b) ==
    IF a = 0 \/ b = 0 THEN 0
    ELSE (a % 2) * (b % 2) + 2 * BitAnd(a \div 2, b \div 2)

\* mutant: the depth is passed on without rounding
RoundBpp_NoRounding(bpp) == bpp

\* while (bpp & (bpp - 1)) bpp++;
RECURSIVE RoundBpp(_)
RoundBpp(bpp) == IF BitAnd(bpp, bpp - 1) # 0 THEN RoundBpp(bpp + 1) ELSE bpp

\* (png_color*) img->ColorMap->Colors: the GifColorType array seen as bytes
RECURSIVE GifColorBytes(_)
GifColorBytes(colors) ==
    IF colors = << >> THEN << >>
    ELSE << Head(colors).Red, Head(colors).Green, Head(colors).Blue >>
         \o GifColorBytes(Tail(colors))

\* mutant: the two colour types disagree on the order of their fields
PngSetPLTE_Bgr(colors, num_palette) ==
    LET bytes == GifColorBytes(colors)
    IN  [i \in 1..num_palette |->
            [red   |-> bytes[3 * (i - 1) + 3],
             green |-> bytes[3 * (i - 1) + 2],
             blue  |-> bytes[3 * (i - 1) + 1]]]

\* png_set_PLTE(png_ptr, info_ptr, palette, num_palette): num_palette
\* png_color entries (red, green, blue; three bytes each) are copied
PngSetPLTE(colors, num_palette) ==
    LET bytes == GifColorBytes(colors)
    IN  [i \in 1..num_palette |->
            [red   |-> bytes[3 * (i - 1) + 1],
             green |-> bytes[3 * (i - 1) + 2],
             blue  |-> bytes[3 * (i - 1) + 3]]]

\* memset(s, c, n) on an array indexed from 0
Memset(arr, c, n) == [i \in DOMAIN arr |-> IF i < n THEN c ELSE arr[i]]

\* png_byte trans_alpha[256]; memset(trans_alpha, 255, k); trans_alpha[k] = 0;
TransAlpha(k, junk) ==
    LET fresh == [i \in 0..(TransAlphaSize - 1) |-> junk]
        opaque == Memset(fresh, 255, k)
    IN  [opaque EXCEPT ![k] = 0]

\* mutant: the count leaves out the transparent entry itself
NumTrans_NoPlusOne(k) == k

\* the num_trans argument: img->TransparentColorIndex + 1
NumTrans(k) == k + 1

\* png_set_tRNS(png_ptr, info_ptr, trans_alpha, num_trans, NULL) copies
\* the first num_trans bytes
PngSetTRNS(arr, num_trans) == [i \in 1..num_trans |-> arr[i - 1]]

\* mutant: the truecolor stride counts pixels, not bytes
Stride_PixelsOnly(image) == image.Width

\* stride = 4 * img->Width;  /  stride = img->Width;
Stride(image) == IF image.IsTruecolor THEN 4 * image.Width ELSE image.Width

\* for (int i = 0; i < img->Height; i++) { row_pointers[i] = p; p += stride; }
\* stores with i outside the array are dropped here and flagged by RowLoopOob
RECURSIVE RowLoop(_, _, _, _, _, _)
RowLoop(rp, i, p, height, st, buf) ==
    IF i < height
    THEN RowLoop(IF i \in DOMAIN rp THEN [rp EXCEPT ![i] = << buf, p >>] ELSE rp,
                 i + 1, p + st, height, st, buf)
    ELSE rp

RowLoopOob(rp, height) == \E i \in 0..(height - 1) : i \notin DOMAIN rp

\* fopen(filename, "wb") succeeds: the file is created or truncated
FopenOk ==
    /\ pc = "wi_fopen"
    /\ files' = [files EXCEPT ![OutputFilename(frame)] = [status |-> "empty", src |-> img.id]]
    /\ fp_open' = fp_open + 1
    /\ pc' = "wi_create"
    /\ UNCHANGED << SHeight, capacity, row_pointers, oob, img, frame, pulled, eos,
                    src_errors, info_read, png, stride, ret, reported, exit_status, signal >>

\* if (!fp) return false;
FopenFail ==
    /\ pc = "wi_fopen"
    /\ ret' = "false"
    /\ pc' = "wi_ret"
    /\ UNCHANGED << SHeight, capacity, row_pointers, oob, img, frame, pulled, eos,
                    src_errors, info_read, files, fp_open, png, stride, reported,
                    exit_status, signal >>

CreateWriteStructOk ==
    /\ pc = "wi_create"
    /\ png' = [png EXCEPT !.png_ptr = TRUE]
    /\ pc' = "wi_info"
    /\ UNCHANGED << SHeight, capacity, row_pointers, oob, img, frame, pulled, eos,
                    src_errors, info_read, files, fp_open, stride, ret, reported,
                    exit_status, signal >>

\* if (!png_ptr) return false;
CreateWriteStructFail ==
    /\ pc = "wi_create"
    /\ ret' = "false"
    /\ pc' = "wi_ret"
    /\ UNCHANGED << SHeight, capacity, row_pointers, oob, img, frame, pulled, eos,
                    src_errors, info_read, files, fp_open, png, stride, reported,
                    exit_status, signal >>

CreateInfoStructOk ==
    /\ pc = "wi_info"
    /\ png' = [png EXCEPT !.info_ptr = TRUE]
    /\ pc' = "wi_hdr"
    /\ UNCHANGED << SHeight, capacity, row_pointers, oob, img, frame, pulled, eos,
                    src_errors, info_read, files, fp_open, stride, ret, reported,
                    exit_status, signal >>

\* if (!info_ptr) { png_destroy_write_struct(&png_ptr, NULL); return false; }
CreateInfoStructFail ==
    /\ pc = "wi_info"
    /\ png' = NoPng
    /\ ret' = "false"
    /\ pc' = "wi_ret"
    /\ UNCHANGED << SHeight, capacity, row_pointers, oob, img, frame, pulled, eos,
                    src_errors, info_read, files, fp_open, stride, reported,
                    exit_status, signal >>

\* if (img->IsTruecolor) { png_set_IHDR(..., 8, PNG_COLOR_TYPE_RGB_ALPHA, ...); stride = ... }
TruecolorHeader ==
    /\ pc = "wi_hdr"
    /\ img.IsTruecolor
    /\ png' = [png EXCEPT !.bit_depth = 8, !.color_type = "RGB_ALPHA"]
    /\ stride' = Stride(img)
    /\ pc' = "wi_rows"
    /\ UNCHANGED << SHeight, capacity, row_pointers, oob, img, frame, pulled, eos,
                    src_errors, info_read, files, fp_open, ret, reported,
                    exit_status, signal >>

\* else { assert(img->ColorMap); ... png_set_IHDR; png_set_PLTE; png_set_tRNS; stride = ... }
IndexedHeader ==
    /\ pc = "wi_hdr"
    /\ ~img.IsTruecolor
    /\ img.ColorMap # NullColorMap
    /\ \E junk \in JunkBytes :
         png' = [png EXCEPT
                   !.bit_depth = RoundBpp(img.ColorMap.BitsPerPixel),
                   !.color_type = "PALETTE",
                   !.PLTE = PngSetPLTE(img.ColorMap.Colors, img.ColorMap.ColorCount),
                   !.has_tRNS = (img.TransparentColorIndex # -1),
                   !.trans_alpha =
                       IF img.TransparentColorIndex # -1
                       THEN PngSetTRNS(TransAlpha(img.TransparentColorIndex, junk),
                                       NumTrans(img.TransparentColorIndex))
                       ELSE << >>]
    /\ stride' = Stride(img)
    /\ pc' = "wi_rows"
    /\ UNCHANGED << SHeight, capacity, row_pointers, oob, img, frame, pulled, eos,
                    src_errors, info_read, files, fp_open, ret, reported,
                    exit_status, signal >>

\* assert(img->ColorMap) with img->ColorMap == NULL: abort() in a build with
\* assertions, a NULL dereference at img->ColorMap->BitsPerPixel under NDEBUG
AssertColorMapFails ==
    /\ pc = "wi_hdr"
    /\ ~img.IsTruecolor
    /\ img.ColorMap = NullColorMap
    /\ \E s \in {"SIGABRT", "SIGSEGV"} : signal' = s
    /\ pc' = "killed"
    /\ UNCHANGED << SHeight, capacity, row_pointers, oob, img, frame, pulled, eos,
                    src_errors, info_read, files, fp_open, png, stride, ret,
                    reported, exit_status >>

\* the setjmp branch: png_destroy_write_struct; fclose(fp); return false;
\* taken here from png_set_PLTE / png_set_tRNS (png_error on a failed
\* allocation), before anything has been written to fp
HeaderLibpngError ==
    /\ pc = "wi_hdr"
    /\ ~img.IsTruecolor
    /\ img.ColorMap # NullColorMap
    /\ png' = NoPng
    /\ fp_open' = fp_open - 1
    /\ ret' = "false"
    /\ pc' = "wi_ret"
    /\ UNCHANGED << SHeight, capacity, row_pointers, oob, img, frame, pulled, eos,
                    src_errors, info_read, files, stride, reported, exit_status, signal >>

\* the row loop, then png_set_rows(png_ptr, info_ptr, row_pointers)
BuildRows ==
    /\ pc = "wi_rows"
    /\ row_pointers' = RowLoop(row_pointers, 0, 0, img.Height, stride, img.id)
    /\ oob' = (oob \/ RowLoopOob(row_pointers, img.Height))
    /\ png' = [png EXCEPT !.rows_set = TRUE]
    /\ pc' = "wi_write"
    /\ UNCHANGED << SHeight, capacity, img, frame, pulled, eos, src_errors,
                    info_read, files, fp_open, stride, ret, reported, exit_status, signal >>

\* png_write_png succeeds; png_destroy_write_struct; fclose(fp); return true;
WritePngOk ==
    /\ pc = "wi_write"
    /\ files' = [files EXCEPT ![OutputFilename(frame)].status = "complete"]
    /\ png' = NoPng
    /\ fp_open' = fp_open - 1
    /\ stride' = 0
    /\ ret' = "true"
    /\ pc' = "wi_ret"
    /\ UNCHANGED << SHeight, capacity, row_pointers, oob, img, frame, pulled, eos,
                    src_errors, info_read, reported, exit_status, signal >>

\* png_write_png raises a libpng error (write error, zlib or allocation
\* failure) after part of the stream went to fp; the setjmp branch destroys
\* the structs and fclose(fp) flushes what was buffered (or fails to)
WritePngError ==
    /\ pc = "wi_write"
    /\ \E s \in {"partial", "empty"} :
         files' = [files EXCEPT ![OutputFilename(frame)].status = s]
    /\ png' = NoPng
    /\ fp_open' = fp_open - 1
    /\ stride' = 0
    /\ ret' = "false"
    /\ pc' = "wi_ret"
    /\ UNCHANGED << SHeight, capacity, row_pointers, oob, img, frame, pulled, eos,
                    src_errors, info_read, reported, exit_status, signal >>

(* --------------------------- main, continued --------------------------- *)
\* mutant: the failed frame is skipped and the loop goes on
WriteFailed_Continue ==
    /\ pc = "wi_ret"
    /\ ret = "false"
    /\ frame' = frame + 1
    /\ img' = NoImage
    /\ pc' = "read"
    /\ UNCHANGED << SHeight, capacity, row_pointers, oob, pulled, eos, src_errors,
                    info_read, files, fp_open, png, stride, ret, reported,
                    exit_status, signal >>

\* mutant: the decode anomaly is read but the run is reported as a success
GetInfoErrors_Ignored ==
    /\ pc = "getinfo"
    /\ src_errors
    /\ info_read' = TRUE
    /\ exit_status' = 0
    /\ pc' = "done"
    /\ UNCHANGED << SHeight, capacity, row_pointers, oob, img, frame, pulled, eos,
                    src_errors, files, fp_open, png, stride, ret, reported, signal >>

\* write_image returned true: printf("%d delay=%d\n", ...); frame++;
ReportFrame ==
    /\ pc = "wi_ret"
    /\ ret = "true"
    /\ reported' = Append(reported, frame)
    /\ frame' = frame + 1
    /\ img' = NoImage
    /\ pc' = "read"
    /\ UNCHANGED << SHeight, capacity, row_pointers, oob, pulled, eos, src_errors,
                    info_read, files, fp_open, png, stride, ret, exit_status, signal >>

\* if (!write_image(...)) { fprintf(stderr, "Failed to write to %s\n"); return 1; }
WriteFailed ==
    /\ pc = "wi_ret"
    /\ ret = "false"
    /\ exit_status' = 1
    /\ pc' = "done"
    /\ UNCHANGED << SHeight, capacity, row_pointers, oob, img, frame, pulled, eos,
                    src_errors, info_read, files, fp_open, png, stride, ret,
                    reported, signal >>

\* info = GifSplitterGetInfo(handle); if (info->HasErrors) { ...; return 1; }
GetInfoErrors ==
    /\ pc = "getinfo"
    /\ src_errors
    /\ info_read' = TRUE
    /\ exit_status' = 1
    /\ pc' = "done"
    /\ UNCHANGED << SHeight, capacity, row_pointers, oob, img, frame, pulled, eos,
                    src_errors, files, fp_open, png, stride, ret, reported, signal >>

\* printf("loops=%d\n"); GifSplitterClose; free; free; return 0;
GetInfoOk ==
    /\ pc = "getinfo"
    /\ ~src_errors
    /\ info_read' = TRUE
    /\ exit_status' = 0
    /\ capacity' = 0
    /\ row_pointers' = << >>
    /\ pc' = "done"
    /\ UNCHANGED << SHeight, oob, img, frame, pulled, eos, src_errors, files,
                    fp_open, png, stride, ret, reported, signal >>

Next ==
    \/ AllocRows
    \/ AllocRowsFail
    \/ ReadFrame
    \/ ReadEnd
    \/ FopenOk
    \/ FopenFail
    \/ CreateWriteStructOk
    \/ CreateWriteStructFail
    \/ CreateInfoStructOk
    \/ CreateInfoStructFail
    \/ TruecolorHeader
    \/ IndexedHeader
    \/ AssertColorMapFails
    \/ HeaderLibpngError
    \/ BuildRows
    \/ WritePngOk
    \/ WritePngError
    \/ ReportFrame
    \/ WriteFailed
    \/ GetInfoErrors
    \/ GetInfoOk

Spec == Init /\ [][Next]_vars

(* ------------------------------ claims --------------------------------- *)
\* the process is inside write_image with a frame in hand
InWriteImage ==
    pc \in {"wi_fopen", "wi_create", "wi_info", "wi_hdr", "wi_rows", "wi_write", "wi_ret"}

\* the header, palette and transparency of an indexed frame have been set
IndexedHeaderSet == png.info_ptr /\ png.color_type = "PALETTE"

\* C1: for an indexed frame with transparent index k the transparency table
\* handed to the writer has length k+1, entries 0..k-1 are 255 and entry k
\* is 0; with no transparent index (-1) no table is handed over at all.
C1_TransparencyTable ==
    IndexedHeaderSet =>
        LET k == img.TransparentColorIndex
        IN  IF k = -1
            THEN ~png.has_tRNS /\ png.trans_alpha = << >>
            ELSE /\ png.has_tRNS
                 /\ Len(png.trans_alpha) = k + 1
                 /\ \A i \in 0..(k - 1) : png.trans_alpha[i + 1] = 255
                 /\ png.trans_alpha[k + 1] = 0

C1_Witness ==
    /\ pc = "wi_write"
    /\ img.ColorMap.ColorCount = 2
    /\ img.TransparentColorIndex = 1
    /\ png.trans_alpha = << 255, 0 >>

\* C2: for bits_per_pixel b in 1..8 the bit depth of the header is the
\* smallest power of two >= b (1->1, 2->2, 3->4, 4->4, 5..8->8); the rounding
\* is idempotent, monotonic, never below its input and never above 8.
PowersOfTwo == {1, 2, 4, 8}

C2_BitDepthRounding ==
    IndexedHeaderSet =>
        LET b == img.ColorMap.BitsPerPixel
            d == png.bit_depth
        IN  /\ b \in 1..8
            /\ d \in PowersOfTwo
            /\ d >= b
            /\ \A q \in PowersOfTwo : q >= b => d <= q
            /\ d = << 1, 2, 4, 4, 8, 8, 8, 8 >>[b]
            /\ RoundBpp(d) = d
            /\ \A a \in 1..b : RoundBpp(a) <= d

C2_Witness ==
    /\ pc = "wi_write"
    /\ img.ColorMap.BitsPerPixel = 3
    /\ png.bit_depth = 4

\* C3 (as claimed): whenever write_image returns failure, the destination
\* holds no partially written image data: it was never created, or is empty.
C3_NoPartialFileOnFailure ==
    (pc = "wi_ret" /\ ret = "false") =>
        files[OutputFilename(frame)].status \in {"absent", "empty"}

\* C4 (as claimed): an indexed frame without a color table makes write_image
\* return failure; the process is never terminated abruptly and the header
\* and palette are never written for it.
C4_MissingColorMapFails ==
    (img.id # -1 /\ ~img.IsTruecolor /\ img.ColorMap = NullColorMap) =>
        /\ signal = "none"
        /\ png.color_type = "none"
        /\ (pc \in {"wi_ret", "done"} => ret = "false")

\* C5 (as claimed): on every return of write_image the file handle it opened
\* is closed and the png structs it created are destroyed.
C5_ResourcesReleasedOnReturn ==
    pc = "wi_ret" => (fp_open = 0 /\ ~png.png_ptr /\ ~png.info_ptr)

\* C6: when the source yields N frames that all encode and then reports
\* has_errors, all N files (0..N-1, in source order) are written before the
\* aggregate metadata is read, the metadata is read only after end of
\* sequence, and the run ends with a failure status and all N files in place.
AllPulledFramesWritten ==
    /\ frame = pulled
    /\ reported = [j \in 1..pulled |-> j - 1]
    /\ \A j \in 0..(pulled - 1) :
          files[OutputFilename(j)] = [status |-> "complete", src |-> j]

C6_DrainThenFail ==
    /\ info_read => (eos /\ AllPulledFramesWritten)
    /\ (pc = "getinfo") => (eos /\ AllPulledFramesWritten)
    /\ (pc = "done" /\ eos /\ src_errors) =>
          (info_read /\ exit_status = 1 /\ AllPulledFramesWritten)

C6_Witness ==
    /\ pc = "done"
    /\ src_errors
    /\ info_read
    /\ pulled = MaxFrames
    /\ exit_status = 1
    /\ \A j \in 0..(MaxFrames - 1) : files[OutputFilename(j)].status = "complete"

\* C7: once write_image returns failure for frame k the driver pulls no
\* further frame, neither encodes nor reports a frame with index >= k, exits
\* with a failure status, and the files of frames 0..k-1 are as written.
C7_StopAtFirstFailure ==
    /\ (pc \in {"wi_ret", "done"} /\ ret = "false") =>
          /\ pulled = frame + 1
          /\ ~eos /\ ~info_read
          /\ reported = [j \in 1..frame |-> j - 1]
          /\ \A j \in 0..(frame - 1) :
                files[OutputFilename(j)] = [status |-> "complete", src |-> j]
          /\ \A j \in (frame + 1)..MaxFrames : files[OutputFilename(j)] = NoFile
    /\ (pc = "done" /\ ret = "false") => (exit_status = 1 /\ ~ENABLED Next)

C7_Witness ==
    /\ pc = "done"
    /\ ret = "false"
    /\ frame = 1
    /\ exit_status = 1
    /\ files[OutputFilename(0)].status = "complete"
    /\ files[OutputFilename(1)].status = "partial"

\* C8: for an indexed frame the palette handed to the writer has exactly as
\* many entries as the color table, and entry i is color_table[i], with or
\* without a transparent index.
C8_PaletteOrderPreserved ==
    IndexedHeaderSet =>
        /\ Len(png.PLTE) = Len(img.ColorMap.Colors)
        /\ \A i \in 1..Len(img.ColorMap.Colors) :
              /\ png.PLTE[i].red = img.ColorMap.Colors[i].Red
              /\ png.PLTE[i].green = img.ColorMap.Colors[i].Green
              /\ png.PLTE[i].blue = img.ColorMap.Colors[i].Blue

C8_Witness ==
    /\ pc = "wi_write"
    /\ img.TransparentColorIndex = 0
    /\ Len(png.PLTE) = 2
    /\ png.PLTE[1] = [red |-> 255, green |-> 0, blue |-> 128]
    /\ png.PLTE[2] = [red |-> 10, green |-> 20, blue |-> 30]

\* C9: when the rows reach the writer, row i (0 <= i < height) points at
\* offset i * stride of this frame's pixel buffer, stride being 4 * width for
\* truecolor and width for indexed; no entry the writer reads is left over
\* from an earlier frame.
C9_RowPointersRebuilt ==
    (pc = "wi_write") =>
        /\ png.rows_set
        /\ \A i \in 0..(img.Height - 1) :
              /\ i \in DOMAIN row_pointers
              /\ row_pointers[i] =
                    << img.id, i * (IF img.IsTruecolor THEN 4 * img.Width ELSE img.Width) >>

\* a one-row indexed frame written after a two-row truecolor frame: the
\* second entry of the scratch array still points into the earlier buffer
C9_Witness ==
    /\ pc = "wi_write"
    /\ img.id = 1
    /\ ~img.IsTruecolor
    /\ img.Height = 1
    /\ capacity = 2
    /\ row_pointers[0] = << 1, 0 >>
    /\ row_pointers[1] = << 0, 8 >>

====
